---- MODULE Spec2Model ----
(***************************************************************************)
(* Model of trace_utils.py: LoggingTransport, an httpx.AsyncBaseTransport  *)
(* that captures the headers and decoded body of each request and response *)
(* it relays, and LoggingAsyncClient, whose four properties forward to the *)
(* transport's captured fields.                                            *)
(*                                                                         *)
(* Bytes are integers 0..255, text is a sequence of Unicode code points.   *)
(* An httpx.Headers object is a sequence of <<name, value>> pairs as put   *)
(* on the wire; dict(headers) is its mapping view (lower-cased names,      *)
(* repeated names joined with ", ").  Each call of handle_async_request is *)
(* a coroutine: the code between two awaits runs atomically on the event   *)
(* loop, so each action below is one such stretch of code.                 *)
(***************************************************************************)
EXTENDS Integers, Sequences, FiniteSets, TLC

\* ------------------------------------------------------------------ bounds
MaxDispatches == 3
MaxBodyLen == 2
MaxHeaders == 2

\* ------------------------------------------------------- Python values
\* Python's None, and a str holding the code points chars.
None == [kind |-> "None"]
Str(chars) == [kind |-> "str", chars |-> chars]

\* U+FFFD, what errors="replace" substitutes for undecodable input.
ReplacementChar == 65533

\* --------------------------------------------------------- bytes.decode
IsContinuationByte(b) == b >= 128 /\ b <= 191

\* One step of the UTF-8 decoder at position i of bs: either a code point
\* and the position after it, or an error and the position after the bytes
\* the error covers (all remaining input when the data ends inside a
\* sequence).
Utf8Step(bs, i) ==
  LET n == Len(bs)
      avail == n - i + 1
      ch == bs[i]
      ch2 == bs[i + 1]
      ch3 == bs[i + 2]
      ch4 == bs[i + 3]
      Char(cp, len) == [ok |-> TRUE, cp |-> cp, next |-> i + len]
      Bad(len) == [ok |-> FALSE, cp |-> ReplacementChar, next |-> i + len]
      BadEnd == [ok |-> FALSE, cp |-> ReplacementChar, next |-> n + 1]
  IN  IF ch < 128 THEN Char(ch, 1)
      ELSE IF ch < 194 THEN Bad(1)
      ELSE IF ch < 224 THEN
        IF avail < 2 THEN BadEnd
        ELSE IF ~IsContinuationByte(ch2) THEN Bad(1)
        ELSE Char((ch - 192) * 64 + (ch2 - 128), 2)
      ELSE IF ch < 240 THEN
        IF avail < 2 THEN BadEnd
        ELSE IF \/ ~IsContinuationByte(ch2)
                \/ (ch = 224 /\ ch2 < 160)
                \/ (ch = 237 /\ ch2 >= 160) THEN Bad(1)
        ELSE IF avail < 3 THEN BadEnd
        ELSE IF ~IsContinuationByte(ch3) THEN Bad(2)
        ELSE Char((ch - 224) * 4096 + (ch2 - 128) * 64 + (ch3 - 128), 3)
      ELSE IF ch < 245 THEN
        IF avail < 2 THEN BadEnd
        ELSE IF \/ ~IsContinuationByte(ch2)
                \/ (ch = 240 /\ ch2 < 144)
                \/ (ch = 244 /\ ch2 >= 144) THEN Bad(1)
        ELSE IF avail < 3 THEN BadEnd
        ELSE IF ~IsContinuationByte(ch3) THEN Bad(2)
        ELSE IF avail < 4 THEN BadEnd
        ELSE IF ~IsContinuationByte(ch4) THEN Bad(3)
        ELSE Char((ch - 240) * 262144 + (ch2 - 128) * 4096
                    + (ch3 - 128) * 64 + (ch4 - 128), 4)
      ELSE Bad(1)

RECURSIVE Utf8From(_, _)
\* The decoder run from position i: the code points produced, and whether
\* every byte was valid.
Utf8From(bs, i) ==
  IF i > Len(bs) THEN [ok |-> TRUE, chars |-> <<>>]
  ELSE LET s == Utf8Step(bs, i)
           rest == Utf8From(bs, s.next)
       IN  [ok |-> s.ok /\ rest.ok, chars |-> <<s.cp>> \o rest.chars]

\* bs.decode("ascii", errors="replace")
AsciiReplace(bs) ==
  [i \in 1..Len(bs) |-> IF bs[i] < 128 THEN bs[i] ELSE ReplacementChar]

\* bs.decode("latin-1", errors="replace"): every byte is its code point.
Latin1Replace(bs) == [i \in 1..Len(bs) |-> bs[i]]

\* bs.decode("utf-8"): errors="strict", so invalid input raises.
DecodeStrict(bs) ==
  LET d == Utf8From(bs, 1)
  IN  IF d.ok THEN [raised |-> FALSE, value |-> Str(d.chars)]
      ELSE [raised |-> TRUE, error |-> "UnicodeDecodeError"]

\* Codecs Python knows that are no text encodings: bytes.decode refuses
\* them with LookupError.
NonTextCodecs == {"base64", "hex", "rot13"}

\* Text codecs whose decoder fails whatever the error handler is: decoding
\* raises UnicodeError.
FailingCodecs == {"undefined", "idna"}

\* bs.decode(encoding, errors="replace"): empty input gives "" before any
\* codec is looked up; otherwise a text encoding decodes with U+FFFD for what
\* it cannot decode, and the other codecs raise.
DecodeReplace(bs, encoding) ==
  IF bs = <<>> THEN [raised |-> FALSE, value |-> Str(<<>>)]
  ELSE CASE encoding = "utf-8" ->
              [raised |-> FALSE, value |-> Str(Utf8From(bs, 1).chars)]
         [] encoding = "ascii" ->
              [raised |-> FALSE, value |-> Str(AsciiReplace(bs))]
         [] encoding = "latin-1" ->
              [raised |-> FALSE, value |-> Str(Latin1Replace(bs))]
         [] encoding \in NonTextCodecs ->
              [raised |-> TRUE, error |-> "LookupError"]
         [] encoding \in FailingCodecs ->
              [raised |-> TRUE, error |-> "UnicodeError"]

\* --------------------------------------------------------- httpx.Headers
\* str.lower() on the header names the model uses.
Lower(name) ==
  CASE name = "Content-Encoding" -> "content-encoding"
    [] name = "Content-Length" -> "content-length"
    [] name = "X-Id" -> "x-id"
    [] OTHER -> name

RECURSIVE Join(_)
\* ", ".join(values), for a non-empty list of values.
Join(values) ==
  IF Len(values) = 1 THEN values[1]
  ELSE values[1] \o ", " \o Join(Tail(values))

RECURSIVE ValuesOf(_, _)
\* The values of the items of headers named key (compared lower-cased), in
\* order.
ValuesOf(headers, key) ==
  IF headers = <<>> THEN <<>>
  ELSE LET h == Head(headers)
       IN  (IF Lower(h[1]) = key THEN <<h[2]>> ELSE <<>>)
             \o ValuesOf(Tail(headers), key)

\* dict(headers), also what headers.items() iterates over: one entry per
\* lower-cased name, the values of a repeated name joined with ", ".
HeadersDict(headers) ==
  [key \in {Lower(headers[i][1]) : i \in 1..Len(headers)} |->
      Join(ValuesOf(headers, key))]

\* The empty dict.
EmptyDict == HeadersDict(<<>>)

\* ------------------------------------------------- handle_async_request
\* Decoding whatever request.content is, with no test for an empty body.
CaptureRequestContent_Unconditional(content) == DecodeStrict(content)

\* request.content.decode("utf-8") if request.content else None
CaptureRequestContent(content) ==
  IF content # <<>> THEN DecodeStrict(content)
  ELSE [raised |-> FALSE, value |-> None]

\* response.encoding when no charset is declared and no default applies.
EncNone == "None"

\* raw_response_bytes.decode(response.encoding or "utf-8", errors="replace")
CaptureResponseContent(raw, encoding) ==
  DecodeReplace(raw, IF encoding # EncNone THEN encoding ELSE "utf-8")

\* Passing every header on.
HeadersWithoutEncoding_Unfiltered(headers) == HeadersDict(headers)

\* {k: v for k, v in response.headers.items() if k.lower() != "content-encoding"}
HeadersWithoutEncoding(headers) ==
  LET d == HeadersDict(headers)
  IN  [k \in {k \in DOMAIN d : Lower(k) # "content-encoding"} |-> d[k]]

\* A response built without passing extensions on.
NewResponse_NoExtensions(status_code, headers, content, request, extensions) ==
  [status_code |-> status_code,
   headers |-> IF content # <<>> /\ "content-length" \notin DOMAIN headers
               THEN headers @@ ("content-length" :> ToString(Len(content)))
               ELSE headers,
   content |-> content,
   request |-> request,
   extensions |-> <<>>]

\* httpx.Response(status_code=, headers=, content=, request=, extensions=):
\* the constructor keeps what it is given and, for a non-empty content,
\* sets Content-Length when the headers have none.
NewResponse(status_code, headers, content, request, extensions) ==
  [status_code |-> status_code,
   headers |-> IF content # <<>> /\ "content-length" \notin DOMAIN headers
               THEN headers @@ ("content-length" :> ToString(Len(content)))
               ELSE headers,
   content |-> content,
   request |-> request,
   extensions |-> extensions]

\* A transport that wraps whatever is raised in an error of its own.
Propagate_Wrapped(error) == "TransportError"

\* An exception raised inside handle_async_request is not caught: what the
\* caller sees is the exception itself.
Propagate(error) == error

\* ---------------------------------------------------------------- inputs
Tasks == {"A", "B"}

\* Requests and inner-transport outcomes of the concurrent specification.
SmallRequests ==
  { [headers |-> << <<"X-Id", "1">> >>, content |-> <<104>>],
    [headers |-> << <<"X-Id", "2">>, <<"x-id", "3">> >>, content |-> <<>>],
    [headers |-> << <<"Content-Length", "1">> >>, content |-> <<195>>] }

SmallResponses ==
  { [status_code |-> 200,
     headers |-> << <<"Content-Encoding", "gzip">>, <<"x-id", "42">> >>,
     content |-> <<104>>, encoding |-> EncNone,
     extensions |-> [http_version |-> "HTTP/1.1"]],
    [status_code |-> 404,
     headers |-> << <<"Content-Length", "1">> >>,
     content |-> <<169>>, encoding |-> "ascii",
     extensions |-> [http_version |-> "HTTP/2"]],
    [status_code |-> 204,
     headers |-> <<>>,
     content |-> <<>>, encoding |-> "utf-8",
     extensions |-> [http_version |-> "HTTP/1.1"]],
    [status_code |-> 200,
     headers |-> << <<"X-Id", "42">> >>,
     content |-> <<195, 104>>, encoding |-> "base64",
     extensions |-> [http_version |-> "HTTP/1.1"]] }

\* Failures of the inner transport's handle_async_request (a cancellation
\* of the awaited call surfaces there) and of response.aread().
InnerErrors == {"ConnectError", "CancelledError"}
ReadErrors == {"ReadError", "CancelledError"}

\* Inputs of the single-dispatch specification: every body and header list
\* up to the bounds.
ByteAlphabet == {104, 195, 169}
Bodies == UNION {[1..n -> ByteAlphabet] : n \in 0..MaxBodyLen}
HeaderItems ==
  { <<"Content-Encoding", "gzip">>, <<"content-encoding", "br">>,
    <<"X-Id", "42">>, <<"x-id", "7">>, <<"Content-Length", "9">> }
HeaderLists == UNION {[1..n -> HeaderItems] : n \in 0..MaxHeaders}
Encodings == {EncNone, "utf-8", "ascii", "latin-1", "base64", "undefined"}
StatusCodes == {200, 404}

AllRequests ==
  [headers : {<< <<"X-Id", "1">>, <<"x-id", "2">> >>}, content : Bodies]
AllResponses ==
  [status_code : StatusCodes, headers : HeaderLists, content : Bodies,
   encoding : Encodings,
   extensions : {[http_version |-> "HTTP/1.1"], [http_version |-> "HTTP/2"]}]

\* ----------------------------------------------------------------- state
VARIABLES
  request_headers,   \* LoggingTransport.request_headers
  request_content,   \* LoggingTransport.request_content
  response_headers,  \* LoggingTransport.response_headers
  response_content,  \* LoggingTransport.response_content
  pc,                \* where each call of handle_async_request stands
  req,               \* its request argument
  inner,             \* what self.inner.handle_async_request did for it
  result,            \* what the call gave its caller
  id,                \* number of the dispatch the call is (history)
  trace,             \* the call's effects so far, in order (history)
  writer,            \* which dispatch last wrote each field (history)
  started,           \* dispatches started so far (history)
  overlapped         \* whether two dispatches were ever in flight together

captured == <<request_headers, request_content, response_headers, response_content>>
vars == <<request_headers, request_content, response_headers, response_content,
          pc, req, inner, result, id, trace, writer, started, overlapped>>

Nothing == [kind |-> "none"]
Returned(response) == [kind |-> "returned", response |-> response]
Raised(error) == [kind |-> "raised", error |-> error]

\* LoggingTransport.__init__, with no dispatch started.
Init ==
  /\ request_headers = EmptyDict
  /\ request_content = None
  /\ response_headers = EmptyDict
  /\ response_content = None
  /\ pc = [t \in Tasks |-> "idle"]
  /\ req = [t \in Tasks |-> Nothing]
  /\ inner = [t \in Tasks |-> Nothing]
  /\ result = [t \in Tasks |-> Nothing]
  /\ id = [t \in Tasks |-> 0]
  /\ trace = [t \in Tasks |-> <<>>]
  /\ writer = [request_headers |-> 0, request_content |-> 0,
               response_headers |-> 0, response_content |-> 0]
  /\ started = 0
  /\ overlapped = FALSE

InFlight(t) == pc[t] \in {"awaiting_inner", "reading_body"}

\* Lines 36-43, up to the first await: capture the request, then call the
\* inner transport.  A body that is not valid UTF-8 makes line 37 raise
\* after line 36 has already stored the headers.
Start(t, r) ==
  LET c == CaptureRequestContent(r.content)
      n == started + 1
  IN  /\ pc[t] = "idle"
      /\ started < MaxDispatches
      /\ started' = n
      /\ id' = [id EXCEPT ![t] = n]
      /\ req' = [req EXCEPT ![t] = r]
      /\ overlapped' = (overlapped \/ \E u \in Tasks \ {t} : InFlight(u))
      /\ request_headers' = HeadersDict(r.headers)
      /\ IF c.raised
         THEN /\ request_content' = request_content
              /\ writer' = [writer EXCEPT !.request_headers = n]
              /\ pc' = [pc EXCEPT ![t] = "raised"]
              /\ result' = [result EXCEPT ![t] = Raised(Propagate(c.error))]
              /\ trace' = [trace EXCEPT ![t] = <<"write_request_headers">>]
              /\ inner' = inner
         ELSE /\ request_content' = c.value
              /\ writer' = [writer EXCEPT !.request_headers = n,
                                          !.request_content = n]
              /\ pc' = [pc EXCEPT ![t] = "awaiting_inner"]
              /\ result' = result
              /\ trace' = [trace EXCEPT ![t] = <<"write_request", "call_inner">>]
              /\ inner' = [inner EXCEPT ![t] = [kind |-> "pending"]]
      /\ UNCHANGED <<response_headers, response_content>>

\* A transport that stores the response's headers as soon as the inner
\* transport returns, before the body is read.
InnerRespond_CapturesHeaders(t, p) ==
  /\ pc[t] = "awaiting_inner"
  /\ pc' = [pc EXCEPT ![t] = "reading_body"]
  /\ inner' = [inner EXCEPT ![t] = Returned(p)]
  /\ response_headers' = HeadersDict(p.headers)
  /\ writer' = [writer EXCEPT !.response_headers = id[t]]
  /\ UNCHANGED <<request_headers, request_content, response_content, req,
                 result, id, trace, started, overlapped>>

\* Line 43 completes with the inner transport's response; line 45 then
\* awaits response.aread().
InnerRespond(t, p) ==
  /\ pc[t] = "awaiting_inner"
  /\ pc' = [pc EXCEPT ![t] = "reading_body"]
  /\ inner' = [inner EXCEPT ![t] = Returned(p)]
  /\ UNCHANGED <<captured, req, result, id, trace, writer, started, overlapped>>

\* Line 43 raises: the inner transport failed, or the call was cancelled.
InnerFail(t, e) ==
  /\ pc[t] = "awaiting_inner"
  /\ pc' = [pc EXCEPT ![t] = "raised"]
  /\ inner' = [inner EXCEPT ![t] = Raised(e)]
  /\ result' = [result EXCEPT ![t] = Raised(Propagate(e))]
  /\ UNCHANGED <<captured, req, id, trace, writer, started, overlapped>>

\* A transport that merges each response's headers into the captured ones
\* instead of replacing them.
WriteResponse_Accumulates(t, response, raw) ==
  LET c == CaptureResponseContent(raw, response.encoding)
  IN  /\ response_headers' = HeadersDict(response.headers) @@ response_headers
      /\ response_content' = IF c.raised THEN response_content ELSE c.value
      /\ writer' = IF c.raised
                   THEN [writer EXCEPT !.response_headers = id[t]]
                   ELSE [writer EXCEPT !.response_headers = id[t],
                                       !.response_content = id[t]]

\* A transport that lets only the most recently started dispatch store its
\* response.
WriteResponse_IfLatest(t, response, raw) ==
  LET c == CaptureResponseContent(raw, response.encoding)
  IN  /\ response_headers' =
           IF id[t] = started THEN HeadersDict(response.headers)
           ELSE response_headers
      /\ response_content' =
           IF id[t] = started /\ ~c.raised THEN c.value ELSE response_content
      /\ writer' = IF c.raised
                   THEN [writer EXCEPT !.response_headers = id[t]]
                   ELSE [writer EXCEPT !.response_headers = id[t],
                                       !.response_content = id[t]]

\* Lines 46-47: store the response's headers, then its decoded body; when
\* the decoding raises, the headers are stored and the content is not.
WriteResponse(t, response, raw) ==
  LET c == CaptureResponseContent(raw, response.encoding)
  IN  /\ response_headers' = HeadersDict(response.headers)
      /\ response_content' = IF c.raised THEN response_content ELSE c.value
      /\ writer' = IF c.raised
                   THEN [writer EXCEPT !.response_headers = id[t]]
                   ELSE [writer EXCEPT !.response_headers = id[t],
                                       !.response_content = id[t]]

\* Lines 45-60: aread() delivers the body, the response is captured and a
\* new response is returned; or line 47 raises and the call ends there.
ReadDone(t) ==
  LET response == inner[t].response
      raw_response_bytes == response.content
      c == CaptureResponseContent(raw_response_bytes, response.encoding)
  IN  /\ pc[t] = "reading_body"
      /\ WriteResponse(t, response, raw_response_bytes)
      /\ IF c.raised
         THEN /\ result' = [result EXCEPT ![t] = Raised(Propagate(c.error))]
              /\ trace' = [trace EXCEPT ![t] =
                             @ \o <<"read_body", "write_response_headers">>]
              /\ pc' = [pc EXCEPT ![t] = "raised"]
         ELSE /\ result' = [result EXCEPT ![t] =
                   Returned(NewResponse(response.status_code,
                                        HeadersWithoutEncoding(response.headers),
                                        raw_response_bytes, req[t],
                                        response.extensions))]
              /\ trace' = [trace EXCEPT ![t] =
                             @ \o <<"read_body", "write_response">>]
              /\ pc' = [pc EXCEPT ![t] = "returned"]
      /\ UNCHANGED <<request_headers, request_content, req, inner, id,
                     started, overlapped>>

\* Line 45 raises: reading the body failed, or the call was cancelled.
ReadFail(t, e) ==
  /\ pc[t] = "reading_body"
  /\ pc' = [pc EXCEPT ![t] = "raised"]
  /\ result' = [result EXCEPT ![t] = Raised(Propagate(e))]
  /\ UNCHANGED <<captured, req, inner, id, trace, writer, started, overlapped>>

\* The caller has taken the outcome; the task can dispatch again.
Finish(t) ==
  /\ pc[t] \in {"returned", "raised"}
  /\ pc' = [pc EXCEPT ![t] = "idle"]
  /\ req' = [req EXCEPT ![t] = Nothing]
  /\ inner' = [inner EXCEPT ![t] = Nothing]
  /\ result' = [result EXCEPT ![t] = Nothing]
  /\ id' = [id EXCEPT ![t] = 0]
  /\ trace' = [trace EXCEPT ![t] = <<>>]
  /\ UNCHANGED <<captured, writer, started, overlapped>>

\* Any number of callers dispatching through one transport.
Next ==
  \E t \in Tasks :
    \/ pc[t] = "idle" /\ \E r \in SmallRequests : Start(t, r)
    \/ pc[t] = "awaiting_inner" /\ \E p \in SmallResponses : InnerRespond(t, p)
    \/ \E e \in InnerErrors : InnerFail(t, e)
    \/ ReadDone(t)
    \/ \E e \in ReadErrors : ReadFail(t, e)
    \/ Finish(t)

Spec == Init /\ [][Next]_vars

\* One dispatch on a fresh transport, over every input up to the bounds.
NextOne ==
  \/ started = 0 /\ \E r \in AllRequests : Start("A", r)
  \/ pc["A"] = "awaiting_inner" /\ \E p \in AllResponses : InnerRespond("A", p)
  \/ \E e \in InnerErrors : InnerFail("A", e)
  \/ ReadDone("A")
  \/ \E e \in ReadErrors : ReadFail("A", e)

SpecOne == Init /\ [][NextOne]_vars

\* ------------------------------------------------------ LoggingAsyncClient
\* The four properties: each returns the transport's current field.
client_request_headers == request_headers
client_request_content == request_content
client_response_headers == response_headers
client_response_content == response_content

\* ---------------------------------------------------------------- claims
\* What a dispatch captures from its request and from the inner response.
HasReturned(t) == pc[t] = "returned"
InnerResponse(t) == inner[t].response
InnerHeaders(t) == HeadersDict(InnerResponse(t).headers)
Reemitted(t) == result[t].response

RECURSIVE Utf8Encode(_)
\* The UTF-8 encoding of a text.
Utf8Encode(chars) ==
  IF chars = <<>> THEN <<>>
  ELSE LET cp == Head(chars)
           bytes ==
             IF cp < 128 THEN <<cp>>
             ELSE IF cp < 2048 THEN <<192 + (cp \div 64), 128 + (cp % 64)>>
             ELSE IF cp < 65536
               THEN <<224 + (cp \div 4096), 128 + ((cp \div 64) % 64), 128 + (cp % 64)>>
             ELSE <<240 + (cp \div 262144), 128 + ((cp \div 4096) % 64),
                    128 + ((cp \div 64) % 64), 128 + (cp % 64)>>
       IN  bytes \o Utf8Encode(Tail(chars))

\* C1: the response a dispatch returns has no header whose name, compared
\* case-insensitively, is content-encoding, whatever the inner response's
\* headers were.
C1_NoContentEncoding ==
  \A t \in Tasks :
    HasReturned(t) =>
      \A k \in DOMAIN Reemitted(t).headers : Lower(k) # "content-encoding"

\* A dispatch has returned whose inner response carried content-encoding,
\* written in a case other than lower case, next to another header.
C1_Witness ==
  \E t \in Tasks :
    /\ HasReturned(t)
    /\ \E i \in 1..Len(InnerResponse(t).headers) :
         InnerResponse(t).headers[i][1] = "Content-Encoding"
    /\ "x-id" \in DOMAIN Reemitted(t).headers

\* C2: the returned response has the inner response's status code, body
\* bytes and extensions, refers to the dispatched request, and has every
\* inner header other than content-encoding with its value.
C2_RestUnchanged ==
  \A t \in Tasks :
    HasReturned(t) =>
      /\ Reemitted(t).status_code = InnerResponse(t).status_code
      /\ Reemitted(t).content = InnerResponse(t).content
      /\ Reemitted(t).extensions = InnerResponse(t).extensions
      /\ Reemitted(t).request = req[t]
      /\ \A k \in DOMAIN InnerHeaders(t) :
           k # "content-encoding" =>
             /\ k \in DOMAIN Reemitted(t).headers
             /\ Reemitted(t).headers[k] = InnerHeaders(t)[k]

\* A dispatch has returned a 404 with a body, whose inner response had
\* content-encoding and one more header.
C2_Witness ==
  \E t \in Tasks :
    /\ HasReturned(t)
    /\ Reemitted(t).status_code = 404
    /\ Reemitted(t).content # <<>>
    /\ DOMAIN InnerHeaders(t) = {"content-encoding", "x-id"}
    /\ Reemitted(t).headers["x-id"] = "42"

\* C3: while dispatches have not overlapped, once the latest one has
\* returned the client's four properties are exactly what that dispatch
\* captured, with nothing left of earlier dispatches.
C3_LastExchangeOnly ==
  \A t \in Tasks :
    (HasReturned(t) /\ id[t] = started /\ ~overlapped) =>
      /\ client_request_headers = HeadersDict(req[t].headers)
      /\ client_request_content = CaptureRequestContent(req[t].content).value
      /\ client_response_headers = InnerHeaders(t)
      /\ client_response_content =
           CaptureResponseContent(InnerResponse(t).content,
                                  InnerResponse(t).encoding).value

\* The third of three dispatches that never overlapped has returned, and
\* its exchange lacks a header that an earlier one stored.
C3_Witness ==
  \E t \in Tasks :
    /\ HasReturned(t) /\ id[t] = started /\ ~overlapped
    /\ started >= 3
    /\ "content-encoding" \notin DOMAIN client_response_headers
    /\ client_request_content = None

\* C4: once a dispatch has stored request_content, it is None exactly when
\* the request had no body bytes, never the empty string, and otherwise the
\* text whose UTF-8 encoding is the request's bytes.
C4_RequestContent ==
  \A t \in Tasks :
    (id[t] # 0 /\ writer.request_content = id[t]) =>
      /\ (request_content = None) <=> (req[t].content = <<>>)
      /\ request_content # Str(<<>>)
      /\ req[t].content # <<>> =>
           /\ request_content.kind = "str"
           /\ Utf8Encode(request_content.chars) = req[t].content

\* A dispatch has captured a request whose body is one two-byte character.
C4_Witness ==
  \E t \in Tasks :
    /\ id[t] # 0 /\ writer.request_content = id[t]
    /\ req[t].content = <<195, 169>>
    /\ request_content = Str(<<233>>)

\* C5: no dispatch ends in a decoding error, whatever the request's and the
\* response's body bytes are.
C5_DecodingNeverFatal ==
  \A t \in Tasks :
    result[t].kind = "raised" =>
      result[t].error \notin {"UnicodeDecodeError", "LookupError", "UnicodeError"}

\* C5, response side alone: a dispatch whose request was captured does not
\* end in an error of decoding the response body.
C5_ResponseDecodingNeverFatal ==
  \A t \in Tasks :
    (result[t].kind = "raised" /\ inner[t].kind = "returned") =>
      result[t].error \notin {"LookupError", "UnicodeError"}

\* C6: when the inner transport fails, the caller gets that same failure,
\* the inner transport was called once, the dispatch has stored nothing in
\* the response fields, and the request fields, unless a later dispatch
\* overwrote them, are those of the failed request.
C6_FailureState ==
  \A t \in Tasks :
    inner[t].kind = "raised" =>
      /\ pc[t] = "raised"
      /\ result[t] = Raised(inner[t].error)
      /\ trace[t] = <<"write_request", "call_inner">>
      /\ writer.response_headers # id[t]
      /\ writer.response_content # id[t]
      /\ writer.request_headers = id[t] =>
           request_headers = HeadersDict(req[t].headers)
      /\ writer.request_content = id[t] =>
           request_content = CaptureRequestContent(req[t].content).value

\* The step in which a dispatch fails at the inner transport changes none
\* of the four captured fields, and the step that started it left the
\* response fields as they were.
C6_FailureStep ==
  \A t \in Tasks :
    /\ (pc[t] = "awaiting_inner" /\ pc'[t] = "raised") => UNCHANGED captured
    /\ (pc[t] = "idle" /\ pc'[t] # "idle") =>
         UNCHANGED <<response_headers, response_content>>

C6_FailureLeavesResponseFields == []C6_FailureState /\ [][C6_FailureStep]_vars

\* A second dispatch failed at the inner transport after a first one had
\* completed: the response fields are still the first one's.
C6_Witness ==
  \E t \in Tasks :
    /\ inner[t].kind = "raised"
    /\ id[t] = 2
    /\ writer.request_headers = 2
    /\ writer.response_headers = 1
    /\ response_content # None

\* C7: under overlapping dispatches each captured field holds what the
\* dispatch that wrote it last captured, and each caller is returned the
\* response the inner transport gave for its own request.
C7_LastWriterWins ==
  \A t \in Tasks :
    /\ (id[t] # 0 /\ writer.request_headers = id[t]) =>
         request_headers = HeadersDict(req[t].headers)
    /\ (id[t] # 0 /\ writer.request_content = id[t]) =>
         request_content = CaptureRequestContent(req[t].content).value
    /\ (id[t] # 0 /\ writer.response_headers = id[t]) =>
         response_headers = InnerHeaders(t)
    /\ (id[t] # 0 /\ writer.response_content = id[t]) =>
         response_content =
           CaptureResponseContent(InnerResponse(t).content,
                                  InnerResponse(t).encoding).value
    /\ HasReturned(t) =>
         /\ Reemitted(t).request = req[t]
         /\ Reemitted(t).status_code = InnerResponse(t).status_code
         /\ Reemitted(t).content = InnerResponse(t).content

\* Two dispatches overlapped; the request fields are those of the one
\* started second, the response fields those of the other one's response,
\* and the two exchanges differ.
C7_Witness ==
  \E t, u \in Tasks :
    /\ t # u /\ overlapped
    /\ HasReturned(t) /\ HasReturned(u)
    /\ id[t] < id[u]
    /\ writer.request_headers = id[u] /\ writer.request_content = id[u]
    /\ writer.response_headers = id[t] /\ writer.response_content = id[t]
    /\ req[t] # req[u]
    /\ InnerResponse(t) # InnerResponse(u)
    /\ Reemitted(t).request = req[t] /\ Reemitted(u).request = req[u]

\* C8: the four fields are empty until the first dispatch, and a dispatch
\* that returns has written the request fields, then called the inner
\* transport, then read the body, then written the response fields.
C8_Lifecycle ==
  /\ started = 0 =>
       /\ request_headers = EmptyDict /\ request_content = None
       /\ response_headers = EmptyDict /\ response_content = None
  /\ \A t \in Tasks :
       /\ pc[t] \in {"awaiting_inner", "reading_body"} =>
            trace[t] = <<"write_request", "call_inner">>
       /\ HasReturned(t) =>
            trace[t] = <<"write_request", "call_inner",
                         "read_body", "write_response">>

\* The request fields change only in the step that starts a dispatch, the
\* response fields only in the step that follows the reading of the body.
C8_Mutations ==
  /\ <<request_headers, request_content>>' # <<request_headers, request_content>>
       => \E t \in Tasks : pc[t] = "idle" /\ pc'[t] # "idle"
  /\ <<response_headers, response_content>>' # <<response_headers, response_content>>
       => \E t \in Tasks :
            pc[t] = "reading_body" /\ pc'[t] \in {"returned", "raised"}

C8_TwoWritesInOrder == []C8_Lifecycle /\ [][C8_Mutations]_vars

\* A second dispatch has returned: its two writes both show.
C8_Witness ==
  \E t \in Tasks :
    /\ HasReturned(t) /\ id[t] = 2
    /\ writer = [request_headers |-> 2, request_content |-> 2,
                 response_headers |-> 2, response_content |-> 2]

\* C9: after a dispatch has returned, the captured response headers are the
\* inner response's, and the returned response's headers are exactly those
\* less the content-encoding entry.
C9_DifferOnlyByContentEncoding ==
  \A t \in Tasks :
    (HasReturned(t) /\ writer.response_headers = id[t]) =>
      /\ response_headers = InnerHeaders(t)
      /\ Reemitted(t).headers =
           [k \in DOMAIN response_headers \ {"content-encoding"} |->
              response_headers[k]]

\* C10: in every state request_headers and request_content were written by
\* the same dispatch (or neither was written yet), and so were
\* response_headers and response_content.
C10_PairsFromOneDispatch ==
  /\ writer.request_headers = writer.request_content
  /\ writer.response_headers = writer.response_content

\* C10, response side alone: response_headers and response_content were
\* written by the same dispatch.
C10_ResponsePairFromOneDispatch ==
  writer.response_headers = writer.response_content

====
